---------------------------- MODULE Spec2Model ----------------------------
(***************************************************************************)
(* A model of three parts of the compiler:                                 *)
(*                                                                         *)
(*   - the Known record of the scope normalizer                            *)
(*     (compiler/syntax_erl/src/passes/transforms/cst/mod.rs),             *)
(*   - the typed instruction builders of the SSA IR                        *)
(*     (compiler/syntax_ssa/src/ir/builders.rs),                           *)
(*   - the lowering of SSA functions to the typed operation dialect        *)
(*     (compiler/codegen/src/passes/core_to_mlir/builder/function.rs).     *)
(*                                                                         *)
(* Each part has its own specification (SpecKnown, SpecBuilder, SpecLower) *)
(* over its own variables; the variables of the other parts stay at their  *)
(* initial value.                                                          *)
(***************************************************************************)
EXTENDS Integers, Sequences, FiniteSets, TLC

VARIABLES
    \* ---- scope normalizer: struct Known and its observers
    known,        \* the Known the normalizer carries through the tree
    fun_known,    \* the Known returned by the latest known_in_fun call
    klast,        \* the latest operation: its name, its argument, its receiver
    khist,        \* the names of the operations applied since the latest
                  \* start_group that found both stacks empty (at most 4)
    khist_ks,     \* the ks of the receiver of that start_group
    kopen,        \* per open group, base and prev_ks as its start_group found them
    \* ---- SSA builders: the DataFlowGraph an InstBuilder appends to
    binsts,       \* the instructions built so far, each with its result type
    bvalues,      \* the type of every value: block parameters, then results
    bcall,        \* the latest builder call: its name, its arguments, and the
                  \* number of instructions before it
    bstatus,      \* "ok", or "panic" once an unwrap or assert of a builder failed
    \* ---- lowering: the function being lowered and the ModuleBuilder
    lfun,         \* the instructions of each source block handed to build_inst
                  \* so far, in order
    blocks,       \* ModuleBuilder.blocks: source block -> target block
    values,       \* ModuleBuilder.values: source value -> target value
    region,       \* the body of the target function: its blocks, in order
    tblocks,      \* target block -> its argument types and its operations
    current_block,         \* ModuleBuilder.current_block (0: none yet)
    current_source_block,  \* ModuleBuilder.current_source_block (0: none yet)
    next_id,      \* the identity the next target block or value gets
    lstatus,      \* "start", "building", "done" (build_function returned Ok)
                  \* or "panic"
    llast,        \* the latest build_inst call in the current source block:
                  \* its instruction and the builder's state before it
    \* ---- the receive loop: a process that executes it, and its mailbox
    rpc,          \* the block and the position of the next instruction
    rmailbox,     \* the messages in the mailbox, oldest first
    rcursor,      \* the mailbox cursor of the receive context (0: before
                  \* the first message)
    relapsed,     \* whether the deadline of the receive has passed
    rstate,       \* what the latest recv_next returned ("none" before it)
    rmatched,     \* whether the message peeked since then matched
    rsince,       \* the instructions executed since the latest recv_next
    rprev,        \* the instruction executed last ("none" at the start)
    \* ---- the target module and the lowerings that declare functions in it
    mfuncs,       \* the func operations of the module body, in order
    dpc,          \* lowering -> "idle", or the symbol its lookup did not find
    dret,         \* lowering -> the symbol and the handle it got last
    \* ---- a runtime process
    pflags,       \* the flags set on the process
    phist,        \* the calls made on the process, with what they returned
    \* ---- main_internal of the minimal runtime
    mi_pc,        \* where main_internal is
    mi_cycles,    \* the scheduler cycles run
    mi_scheduled, \* what the latest run_once returned
    mi_sig,       \* the signal the latest try_recv returned ("none": Err)
    mi_shutdowns, \* the results of the scheduler.shutdown() calls, in order
    mi_result,    \* what main_internal returned ("none" while it runs)
    \* ---- the FunctionContext of the normalizer
    fc_start,     \* var_counter as FunctionContext::new found it
    var_counter,
    fc_names,     \* the names generated, in order
    fc_last,      \* the latest call: its name, n, the counter before, the result
    \* ---- maps:merge/2
    mg_args,      \* the arguments of the latest call
    mg_result     \* what it returned

kvars == <<known, fun_known, klast, khist, khist_ks, kopen>>

bvars == <<binsts, bvalues, bcall, bstatus>>

lvars == <<lfun, blocks, values, region, tblocks, current_block,
           current_source_block, next_id, lstatus, llast>>

rvars == <<rpc, rmailbox, rcursor, relapsed, rstate, rmatched, rsince, rprev>>

\* The variables of the parts that are not compiler passes.
mvars == <<mfuncs, dpc, dret>>

pvars == <<pflags, phist>>

ivars == <<mi_pc, mi_cycles, mi_scheduled, mi_sig, mi_shutdowns, mi_result>>

fvars == <<fc_start, var_counter, fc_names, fc_last>>

gvars == <<mg_args, mg_result>>

ovars == <<rvars, mvars, pvars, ivars, fvars, gvars>>

vars == <<kvars, bvars, lvars, ovars>>

\* No build_inst call yet.
NoCall ==
    [inst |-> [kind |-> "none", op |-> "none", args |-> <<>>],
     current_block |-> 0, region |-> <<>>, tblocks |-> <<>>,
     values |-> <<>>, next_id |-> 1]

\* The process has not entered the receive; its mailbox is empty.
RecvIdle ==
    /\ rpc = [block |-> "entry", idx |-> 1]
    /\ rmailbox = <<>>
    /\ rcursor = 0
    /\ relapsed = FALSE
    /\ rstate = "none"
    /\ rmatched = FALSE
    /\ rsince = <<>>
    /\ rprev = "none"

\* An empty module; no lowering has declared anything.
DeclareIdle ==
    /\ mfuncs = <<>>
    /\ dpc = [l \in {1, 2} |-> "idle"]
    /\ dret = [l \in {1, 2} |-> [name |-> "none", handle |-> 0]]

\* A process that was just created; nothing was called on it.
ProcessIdle ==
    /\ pflags = {}
    /\ phist = <<>>

\* main_internal has spawned the init process and enters its loop.
MainIdle ==
    /\ mi_pc = "run_once"
    /\ mi_cycles = 0
    /\ mi_scheduled = FALSE
    /\ mi_sig = "none"
    /\ mi_shutdowns = <<>>
    /\ mi_result = "none"

\* A FunctionContext that has generated no name.
ContextIdle ==
    /\ fc_start = 0
    /\ var_counter = 0
    /\ fc_names = <<>>
    /\ fc_last = [op |-> "new", n |-> 0, counter |-> 0, names |-> <<>>]

\* maps:merge/2 was not called.
MergeIdle ==
    /\ mg_args = <<>>
    /\ mg_result = [tag |-> "none"]

\* The parts that are not compiler passes, before they run.
OthersIdle ==
    /\ RecvIdle
    /\ DeclareIdle
    /\ ProcessIdle
    /\ MainIdle
    /\ ContextIdle
    /\ MergeIdle

\* The ModuleBuilder before build_function, and a function whose
\* instructions are not known yet.
LowerStart ==
    /\ lfun = [b \in {1, 2} |-> <<>>]
    /\ blocks = <<>>
    /\ values = <<>>
    /\ region = <<>>
    /\ tblocks = <<>>
    /\ current_block = 0
    /\ current_source_block = 0
    /\ next_id = 1
    /\ lstatus = "start"
    /\ llast = NoCall

(***************************************************************************)
(*                        Scope normalizer: Known                          *)
(***************************************************************************)

\* The identifiers the normalizer may see.
Names == {"A", "X"}

\* The deepest nesting of groups explored.
MaxDepth == 2

\* Vector::last
Last(s) == s[Len(s)]

\* Vector::drop_last / drop_last_mut: nothing is dropped from an empty vector.
DropLast(s) == IF s = <<>> THEN <<>> ELSE SubSeq(s, 1, Len(s) - 1)

\* RedBlackTreeSet::insert, one element at a time, as in
\* vars.iter().fold(ks, |ks, var| ks.insert(var)) and `for id in .. insert_mut`.
RECURSIVE InsertAll(_, _)
InsertAll(set, ids) ==
    IF ids = {} THEN set
    ELSE LET id == CHOOSE x \in ids : TRUE
         IN  InsertAll(set \cup {id}, ids \ {id})

\* RedBlackTreeSet::remove_mut, one element at a time (`for v in .. remove_mut`).
RECURSIVE RemoveAll(_, _)
RemoveAll(set, ids) ==
    IF ids = {} THEN set
    ELSE LET id == CHOOSE x \in ids : TRUE
         IN  RemoveAll(set \ {id}, ids \ {id})

\* #[derive(Default)] Known
DefaultKnown == [base |-> <<>>, ks |-> {}, prev_ks |-> <<>>]

\* start_group that pushes the current ks onto both stacks
start_group_pushes_ks(k) ==
    [k EXCEPT !.prev_ks = Append(k.prev_ks, k.ks),
              !.base = Append(k.base, k.ks)]

start_group(k) ==
    [k EXCEPT !.prev_ks = Append(k.prev_ks, {}),
              !.base = Append(k.base, k.ks)]

\* end_body that pushes without dropping the entry of the body that ended
end_body_pushes(k) ==
    [k EXCEPT !.prev_ks = Append(k.prev_ks, k.ks)]

end_body(k) ==
    [k EXCEPT !.prev_ks = Append(DropLast(k.prev_ks), k.ks)]

\* end_group that pops base and leaves prev_ks alone
end_group_keeps_prev_ks(k) ==
    [k EXCEPT !.base = DropLast(k.base)]

end_group(k) ==
    [k EXCEPT !.base = DropLast(k.base),
              !.prev_ks = DropLast(k.prev_ks)]

\* union that fills the stacks with ..Default::default()
union_default_stacks(k, set) ==
    [base |-> <<>>, ks |-> InsertAll(k.ks, set), prev_ks |-> <<>>]

\* union that keeps only the new names
union_replaces_ks(k, set) ==
    [base |-> k.base, ks |-> InsertAll({}, set), prev_ks |-> k.prev_ks]

union(k, set) ==
    [base |-> k.base, ks |-> InsertAll(k.ks, set), prev_ks |-> k.prev_ks]

\* bind that removes the names from ks instead of from the top of prev_ks
bind_removes_from_ks(k, set) ==
    IF k.prev_ks = <<>> THEN k
    ELSE [base |-> k.base, ks |-> RemoveAll(k.ks, set), prev_ks |-> k.prev_ks]

bind(k, set) ==
    IF k.prev_ks = <<>> THEN k
    ELSE [base |-> k.base,
          ks |-> k.ks,
          prev_ks |-> Append(DropLast(k.prev_ks), RemoveAll(Last(k.prev_ks), set))]

\* The early return of known_in_fun.
known_in_fun_unchanged(k) == k.base = <<>> \/ k.prev_ks = <<>>

\* The set known_in_fun computes when it does not return early.
known_in_fun_ks_keeps_siblings(k) == InsertAll(k.ks, Last(k.base))
known_in_fun_ks_drops_base(k) == RemoveAll(k.ks, Last(k.prev_ks))
known_in_fun_ks(k) == InsertAll(RemoveAll(k.ks, Last(k.prev_ks)), Last(k.base))

known_in_fun(k) ==
    IF known_in_fun_unchanged(k) THEN k
    ELSE [base |-> <<>>, prev_ks |-> <<>>, ks |-> known_in_fun_ks(k)]

\* The operations applied since the group was opened on empty stacks.
KHistNext(op) ==
    IF op = "start_group" /\ known.base = <<>> /\ known.prev_ks = <<>>
    THEN /\ khist' = <<op>>
         /\ khist_ks' = known.ks
    ELSE /\ khist' = IF khist # <<>> /\ Len(khist) < 4 THEN Append(khist, op) ELSE <<>>
         /\ khist_ks' = khist_ks

\* The groups that are open: start_group opens one, end_group closes the
\* innermost.
KOpenNext(op) ==
    kopen' = CASE op = "start_group" ->
                      Append(kopen, [base |-> known.base,
                                     prev_ks |-> known.prev_ks])
               [] op = "end_group" -> DropLast(kopen)
               [] OTHER -> kopen

KStep(op, set, k) ==
    /\ known' = k
    /\ klast' = [op |-> op, vars |-> set, recv |-> known]
    /\ KHistNext(op)
    /\ KOpenNext(op)
    /\ UNCHANGED <<fun_known, bvars, lvars, ovars>>

StartGroup ==
    /\ Len(known.base) < MaxDepth
    /\ Len(known.prev_ks) < MaxDepth
    /\ KStep("start_group", {}, start_group(known))

EndBody == KStep("end_body", {}, end_body(known))

EndGroup == KStep("end_group", {}, end_group(known))

Union == \E set \in SUBSET Names : KStep("union", set, union(known, set))

Bind == \E set \in SUBSET Names : KStep("bind", set, bind(known, set))

KnownInFun ==
    /\ fun_known' = known_in_fun(known)
    /\ klast' = [op |-> "known_in_fun", vars |-> {}, recv |-> known]
    /\ KHistNext("known_in_fun")
    /\ UNCHANGED <<known, kopen, bvars, lvars, ovars>>

\* The normalizer starts from Known::default(); no builder is at work.
InitKnown ==
    /\ known = DefaultKnown
    /\ fun_known = DefaultKnown
    /\ klast = [op |-> "new", vars |-> {}, recv |-> DefaultKnown]
    /\ khist = <<>>
    /\ khist_ks = {}
    /\ kopen = <<>>
    /\ binsts = <<>>
    /\ bvalues = <<>>
    /\ bcall = [fn |-> "new", args |-> <<>>, n |-> 0]
    /\ bstatus = "ok"
    /\ LowerStart
    /\ OthersIdle

NextKnown ==
    \/ StartGroup
    \/ EndBody
    \/ EndGroup
    \/ Union
    \/ Bind
    \/ KnownInFun

(***************************************************************************)
(*                     SSA builders: InstBuilder                           *)
(***************************************************************************)

\* The most instructions built into one graph.
MaxInsts == 1

\* Type::Term(t), Type::Primitive(t), Type::Invalid
Term(t) == [k |-> "term", t |-> t]
Primitive(t) == [k |-> "prim", t |-> t]
Invalid == [k |-> "invalid", t |-> "-"]

\* The types the parameters of the entry block are drawn from.
ParamTypes == {Term("integer"), Term("float"), Term("atom"), Primitive("i1")}

\* The immediates the _imm builders are given.
Immediates == {"i1:true", "int:1", "atom:a"}

\* An instruction without an immediate.
NoImm == "-"

\* Immediate::ty
ImmType(imm) ==
    CASE imm \in {"i1:true", "i1:false"} -> Primitive("i1")
      [] imm = "int:1" -> Term("integer")
      [] imm = "float:1.5" -> Term("float")
      [] imm = "atom:a" -> Term("atom")
      [] OTHER -> Term("any")

\* Type::as_term: Some for a term type, None (here FALSE) otherwise.
IsTerm(ty) == ty.k = "term"

\* TermType::is_numeric
is_numeric(t) == t \in {"integer", "float", "number"}

\* TermType::coerce_to_numeric_with: the numeric join of two term types.
coerce_to_numeric_with(t, other) ==
    IF t = "integer" /\ other = "integer" THEN "integer" ELSE "float"

ArithOps == {"Add", "Sub", "Mul", "Fdiv"}
CmpOps == {"Eq", "EqExact", "Neq", "NeqExact", "Gt", "Gte", "Lt", "Lte"}
IcmpOps == {"IcmpEq", "IcmpNeq", "IcmpGt", "IcmpGte", "IcmpLt", "IcmpLte"}

\* Opcode::is_terminator
is_terminator(op) == op \in {"Br", "CondBr", "Switch", "Ret"}

\* DataFlowGraph::value_type
value_type(v) == bvalues[v]

BValues == 1..Len(bvalues)

\* InstBuilder::Binary
Binary(op, ty, lhs, rhs) ==
    [kind |-> "BinaryOp", op |-> op, args |-> <<lhs, rhs>>, imm |-> NoImm, ty |-> ty]

\* InstBuilder::BinaryImm
BinaryImm(op, ty, arg, imm) ==
    [kind |-> "BinaryOpImm", op |-> op, args |-> <<arg>>, imm |-> imm, ty |-> ty]

\* InstBuilder::RetImm
RetImm(is_err, returning) ==
    [kind |-> "RetImm", op |-> "Ret", args |-> <<returning>>, imm |-> is_err,
     ty |-> Invalid]

\* macro binary_op: $name and $name_imm
binary_op(op, lhs, rhs) == Binary(op, value_type(lhs), lhs, rhs)
binary_op_imm(op, lhs, imm) == BinaryImm(op, value_type(lhs), lhs, imm)

\* macro binary_numeric_op, $name: the two operand types it joins
binary_numeric_op_lty(lhs, rhs) == value_type(lhs)
binary_numeric_op_rty(lhs, rhs) == value_type(lhs)

\* macro binary_numeric_op, $name: the unwraps of as_term
binary_numeric_op_panics(lhs, rhs) ==
    \/ ~IsTerm(binary_numeric_op_rty(lhs, rhs))
    \/ ~IsTerm(binary_numeric_op_lty(lhs, rhs))

binary_numeric_op(op, lhs, rhs) ==
    Binary(op,
           Term(coerce_to_numeric_with(binary_numeric_op_lty(lhs, rhs).t,
                                       binary_numeric_op_rty(lhs, rhs).t)),
           lhs, rhs)

\* macro binary_numeric_op, $name_imm: the unwraps and the assert
binary_numeric_op_imm_panics(lhs, imm) ==
    \/ ~IsTerm(ImmType(imm))
    \/ ~is_numeric(ImmType(imm).t)
    \/ ~IsTerm(value_type(lhs))

binary_numeric_op_imm(op, lhs, imm) ==
    BinaryImm(op,
              Term(coerce_to_numeric_with(value_type(lhs).t, ImmType(imm).t)),
              lhs, imm)

\* InstBuilder::icmp_eq .. icmp_lte and their _imm forms
icmp(op, lhs, rhs) == Binary(op, Primitive("i1"), lhs, rhs)
icmp_imm(op, lhs, imm) == BinaryImm(op, Primitive("i1"), lhs, imm)

\* InstBuilder::ret_ok, InstBuilder::ret_err
ret_err_flag_false(returning) == RetImm("i1:false", returning)
ret_ok(returning) == RetImm("i1:false", returning)
ret_err(returning) == RetImm("i1:true", returning)

\* InstBuilderBase::build: the instruction is appended, and its result, when
\* its type is not Invalid, becomes a new value of that type.
build(fn, args, inst) ==
    /\ binsts' = Append(binsts, inst)
    /\ bvalues' = IF inst.ty = Invalid THEN bvalues ELSE Append(bvalues, inst.ty)
    /\ bcall' = [fn |-> fn, args |-> args, n |-> Len(binsts)]
    /\ UNCHANGED <<bstatus, kvars, lvars, ovars>>

\* A failed unwrap or assert: the builder call builds nothing.
BuilderPanic(fn, args) ==
    /\ bstatus' = "panic"
    /\ bcall' = [fn |-> fn, args |-> args, n |-> Len(binsts)]
    /\ UNCHANGED <<binsts, bvalues, kvars, lvars, ovars>>

CanBuild == bstatus = "ok" /\ Len(binsts) < MaxInsts

BuildArith ==
    /\ CanBuild
    /\ \E op \in ArithOps, lhs \in BValues, rhs \in BValues :
          IF binary_numeric_op_panics(lhs, rhs)
          THEN BuilderPanic("arith", <<lhs, rhs>>)
          ELSE build("arith", <<lhs, rhs>>, binary_numeric_op(op, lhs, rhs))

BuildArithImm ==
    /\ CanBuild
    /\ \E op \in ArithOps, lhs \in BValues, imm \in Immediates :
          IF binary_numeric_op_imm_panics(lhs, imm)
          THEN BuilderPanic("arith_imm", <<lhs>>)
          ELSE build("arith_imm", <<lhs>>, binary_numeric_op_imm(op, lhs, imm))

BuildCmp ==
    /\ CanBuild
    /\ \E op \in CmpOps, lhs \in BValues, rhs \in BValues :
          build("cmp", <<lhs, rhs>>, binary_op(op, lhs, rhs))

BuildCmpImm ==
    /\ CanBuild
    /\ \E op \in CmpOps, lhs \in BValues, imm \in Immediates :
          build("cmp_imm", <<lhs>>, binary_op_imm(op, lhs, imm))

BuildIcmp ==
    /\ CanBuild
    /\ \E op \in IcmpOps, lhs \in BValues, rhs \in BValues :
          build("icmp", <<lhs, rhs>>, icmp(op, lhs, rhs))

BuildIcmpImm ==
    /\ CanBuild
    /\ \E op \in IcmpOps, lhs \in BValues, imm \in Immediates :
          build("icmp_imm", <<lhs>>, icmp_imm(op, lhs, imm))

\* InstBuilder::IsType and is_type: the static type is a field, the result
\* type handed to build is Type::Term(TermType::Bool)
IsType(ty, arg) ==
    [kind |-> "IsType", op |-> "IsType", args |-> <<arg>>, imm |-> NoImm,
     ty |-> Term("bool"), static |-> ty]

is_type(ty, value) == IsType(ty, value)

BuildIsType ==
    /\ CanBuild
    /\ \E ty \in ParamTypes, value \in BValues :
          build("is_type", <<value>>, is_type(ty, value))

BuildRetOk ==
    /\ CanBuild
    /\ \E v \in BValues : build("ret_ok", <<v>>, ret_ok(v))

BuildRetErr ==
    /\ CanBuild
    /\ \E v \in BValues : build("ret_err", <<v>>, ret_err(v))

\* A builder on a function whose entry block has two parameters; the
\* normalizer is not at work.
InitBuilder ==
    /\ binsts = <<>>
    /\ bvalues \in [1..2 -> ParamTypes]
    /\ bcall = [fn |-> "new", args |-> <<>>, n |-> 0]
    /\ bstatus = "ok"
    /\ known = DefaultKnown
    /\ fun_known = DefaultKnown
    /\ klast = [op |-> "new", vars |-> {}, recv |-> DefaultKnown]
    /\ khist = <<>>
    /\ khist_ks = {}
    /\ kopen = <<>>
    /\ LowerStart
    /\ OthersIdle

(***************************************************************************)
(*                  Lowering to the typed operation dialect                *)
(***************************************************************************)

\* The number of instructions of the function handed to build_inst.
MaxLowered == 3

\* The function being lowered: its blocks in layout order, the parameters of
\* each block, the type of each value and the result types of its signature.
\* Block 1 is the entry block.  Values 1 and 2 are its parameters, values 3
\* and 4 the parameters of block 2; later values are instruction results.
SourceBlocks == <<1, 2>>

block_params(b) == IF b = 1 THEN <<1, 2>> ELSE <<3, 4>>

dfg_value_type(v) ==
    CASE v = 1 -> Primitive("i1")
      [] v = 2 -> Term("integer")
      [] v = 3 -> Term("integer")
      [] v = 4 -> Primitive("i1")
      [] OTHER -> Primitive("i1")

block_param_types(b) ==
    [i \in 1..Len(block_params(b)) |-> dfg_value_type(block_params(b)[i])]

\* The Erlang calling convention: an error flag and a term.
SignatureResults == <<Primitive("i1"), Term("any")>>

\* The values an instruction of the function may use as operands.
Operands == {1, 2}

\* The argument lists a branch of the function may pass to block 2.
BranchArgs == {<<2, 1>>, <<1, 2>>}

translate_primitive_ir_type(t) ==
    CASE t = "void" -> "none"
      [] t = "i1" -> "i1"
      [] t = "i8" -> "i8"
      [] t = "isize" -> "index"
      [] t = "f64" -> "f64"

translate_term_ir_type(t) ==
    CASE t = "any" -> "!cir.term"
      [] t = "bool" -> "!cir.bool"
      [] t = "integer" -> "!cir.integer"
      [] t = "float" -> "!cir.float"
      [] t = "number" -> "!cir.number"
      [] t = "atom" -> "!cir.atom"
      [] t = "nil" -> "!cir.nil"

translate_ir_type(ty) ==
    CASE ty.k = "invalid" -> "!cir.none"
      [] ty.k = "prim" -> translate_primitive_ir_type(ty.t)
      [] ty.k = "term" -> translate_term_ir_type(ty.t)
      [] ty.k = "recv_context" -> "!cir.recv_context"
      [] ty.k = "recv_state" -> "i8"

\* The type of the target function: the translated result types.
func_type_results ==
    [i \in 1..Len(SignatureResults) |-> translate_ir_type(SignatureResults[i])]

\* ---- instructions of the function, as their builders make them

UnaryOp(op, arg, result) ==
    [kind |-> "UnaryOp", op |-> op, args |-> <<arg>>, results |-> <<result>>]

Ret(is_err, returning) ==
    [kind |-> "Ret", op |-> "Ret", args |-> <<is_err, returning>>]

Br(op, destination, args) ==
    [kind |-> "Br", op |-> op, destination |-> destination, args |-> args]

br(block, args) == Br("Br", block, args)

br_if(cond, block, args) == Br("BrIf", block, <<cond>> \o args)

br_unless(cond, block, args) == Br("BrUnless", block, <<cond>> \o args)

CondBr(cond, then_dest, then_args, else_dest, else_args) ==
    [kind |-> "CondBr", op |-> "CondBr", args |-> <<cond>>,
     then_dest |-> then_dest, then_args |-> then_args,
     else_dest |-> else_dest, else_args |-> else_args]

cond_br(cond, then_dest, then_args, else_dest, else_args) ==
    CondBr(cond, then_dest, then_args, else_dest, else_args)

Switch(arg, default) ==
    [kind |-> "Switch", op |-> "Switch", args |-> <<arg>>, default |-> default]

\* ---- operations of the dialect

TValue(id, ty) == [id |-> id, ty |-> ty]

Op(name, operands, results, successors) ==
    [name |-> name, operands |-> operands, results |-> results,
     successors |-> successors]

build_cast(v, ty, id) == Op("cir.cast", <<v>>, <<TValue(id, ty)>>, <<>>)

build_null(ty, id) == Op("cir.null", <<>>, <<TValue(id, ty)>>, <<>>)

build_is_null(v, id) == Op("cir.is_null", <<v>>, <<TValue(id, "i1")>>, <<>>)

build_return(operands) == Op("cir.return", operands, <<>>, <<>>)

build_branch(dest, args) ==
    Op("cf.br", <<>>, <<>>, <<[block |-> dest, args |-> args]>>)

build_cond_branch(cond, t, targs, f, fargs) ==
    Op("cf.cond_br", <<cond>>, <<>>,
       <<[block |-> t, args |-> targs], [block |-> f, args |-> fargs]>>)

\* region.insert_after(block, new)
RECURSIVE insert_after(_, _, _)
insert_after(r, block, new) ==
    IF r = <<>> THEN <<>>
    ELSE IF Head(r) = block THEN <<block, new>> \o Tail(r)
    ELSE <<Head(r)>> \o insert_after(Tail(r), block, new)

\* The operations a handler emits go to the end of the current block.
emit(tb, block, ops) == [tb EXCEPT ![block].ops = @ \o ops]

NumLowered == Len(lfun[1]) + Len(lfun[2])

\* build_function, lines 29-61: one target block per source block, with the
\* translated parameter types; every block parameter is mapped to the
\* argument of the target block.
RECURSIVE create_blocks(_, _)
create_blocks(bs, id) ==
    IF bs = <<>>
    THEN [blocks |-> <<>>, values |-> <<>>, region |-> <<>>,
          tblocks |-> <<>>, id |-> id]
    ELSE LET b == Head(bs)
             tx_param_types ==
                 [i \in 1..Len(block_param_types(b)) |->
                     translate_ir_type(block_param_types(b)[i])]
             mlir_block == id
             arguments ==
                 [i \in 1..Len(tx_param_types) |->
                     TValue(id + i, tx_param_types[i])]
             params == block_params(b)
             rest == create_blocks(Tail(bs), id + Len(tx_param_types) + 1)
         IN  [blocks |-> (b :> mlir_block) @@ rest.blocks,
              values |-> [v \in {params[i] : i \in 1..Len(params)} |->
                            arguments[CHOOSE i \in 1..Len(params) :
                                         params[i] = v]] @@ rest.values,
              region |-> <<mlir_block>> \o rest.region,
              tblocks |-> (mlir_block :> [args |-> arguments, ops |-> <<>>])
                              @@ rest.tblocks,
              id |-> rest.id]

BuildFunctionEnter ==
    /\ lstatus = "start"
    /\ LET c == create_blocks(SourceBlocks, next_id)
       IN  /\ blocks' = c.blocks
           /\ values' = c.values
           /\ region' = c.region
           /\ tblocks' = c.tblocks
           /\ next_id' = c.id
    /\ lstatus' = "building"
    /\ UNCHANGED <<lfun, current_block, current_source_block, llast,
                   kvars, bvars, ovars>>

\* build_function, line 64: the walk moves to the next block in layout order.
switch_to_block ==
    /\ lstatus = "building"
    /\ current_source_block < Len(SourceBlocks)
    /\ current_source_block' = SourceBlocks[current_source_block + 1]
    /\ current_block' = blocks[SourceBlocks[current_source_block + 1]]
    /\ llast' = NoCall
    /\ UNCHANGED <<lfun, blocks, values, region, tblocks, next_id, lstatus,
                   kvars, bvars, ovars>>

\* build_function, line 70: every block has been walked.
BuildFunctionOk ==
    /\ lstatus = "building"
    /\ current_source_block = Len(SourceBlocks)
    /\ lstatus' = "done"
    /\ UNCHANGED <<lfun, blocks, values, region, tblocks, current_block,
                   current_source_block, next_id, llast, kvars, bvars, ovars>>

\* build_inst is called with the next instruction of the current block.
CanBuildInst ==
    /\ lstatus = "building"
    /\ current_source_block >= 1
    /\ NumLowered < MaxLowered

BuildInstCall(inst) ==
    /\ lfun' = [lfun EXCEPT ![current_source_block] = Append(@, inst)]
    /\ llast' = [inst |-> inst, current_block |-> current_block,
                 region |-> region, tblocks |-> tblocks, values |-> values,
                 next_id |-> next_id]
    /\ UNCHANGED <<blocks, current_source_block, kvars, bvars, ovars>>

\* A handler that panics: unimplemented!, assert_eq!
LowerPanic(inst) ==
    /\ BuildInstCall(inst)
    /\ lstatus' = "panic"
    /\ UNCHANGED <<values, region, tblocks, current_block, next_id>>

needs_cast_never(ty, expected) == FALSE

\* lines 808, 837, 864, 875: a cast is built when the two types differ
needs_cast(ty, expected) == ty # expected

\* build_unary_op, lines 228-250, for IsNull
build_unary_op(inst) ==
    LET arg == values[inst.args[1]]
        mlir_op == build_is_null(arg, next_id)
    IN  /\ BuildInstCall(inst)
        /\ tblocks' = emit(tblocks, current_block, <<mlir_op>>)
        /\ values' = (inst.results[1] :> mlir_op.results[1]) @@ values
        /\ next_id' = next_id + 1
        /\ UNCHANGED <<region, current_block, lstatus>>

return_type_first(i) == func_type_results[1]

\* build_ret, line 806
return_type(i) == func_type_results[i + 1]

\* build_ret, lines 804-814; i counts from 0 as enumerate() does
RECURSIVE build_ret_args(_, _, _)
build_ret_args(mapped, i, id) ==
    IF i >= Len(mapped) THEN [ops |-> <<>>, mapped_args |-> <<>>, id |-> id]
    ELSE LET mapped_arg == mapped[i + 1]
         IN  IF ~needs_cast(mapped_arg.ty, return_type(i))
             THEN LET rest == build_ret_args(mapped, i + 1, id)
                  IN  [rest EXCEPT !.mapped_args = <<mapped_arg>> \o @]
             ELSE LET cast == build_cast(mapped_arg, return_type(i), id)
                      rest == build_ret_args(mapped, i + 1, id + 1)
                  IN  [rest EXCEPT !.ops = <<cast>> \o @,
                                   !.mapped_args = <<cast.results[1]>> \o @]

\* build_ret, lines 792-817
build_ret(inst) ==
    LET args == inst.args
        r == build_ret_args([i \in 1..Len(args) |-> values[args[i]]], 0,
                            next_id)
    IN  /\ BuildInstCall(inst)
        /\ tblocks' = emit(tblocks, current_block,
                           r.ops \o <<build_return(r.mapped_args)>>)
        /\ next_id' = r.id
        /\ UNCHANGED <<values, region, current_block, lstatus>>

\* build_ret_imm, line 831: assert_eq!(op.imm, Immediate::None)
build_ret_imm_panics(inst) == inst.imm # "none"

\* build_ret_imm, lines 819-847
build_ret_imm(inst) ==
    IF build_ret_imm_panics(inst) THEN LowerPanic(inst)
    ELSE
    LET arg == values[inst.args[1]]
        expected_arg_type == func_type_results[1]
        expected_imm_type == func_type_results[2]
        casts == IF needs_cast(arg.ty, expected_arg_type)
                 THEN <<build_cast(arg, expected_arg_type, next_id)>>
                 ELSE <<>>
        arg2 == IF casts = <<>> THEN arg ELSE casts[1].results[1]
        imm == build_null(expected_imm_type, next_id + Len(casts))
    IN  /\ BuildInstCall(inst)
        /\ tblocks' = emit(tblocks, current_block,
                           casts \o <<imm,
                                      build_return(<<arg2, imm.results[1]>>)>>)
        /\ next_id' = next_id + Len(casts) + 1
        /\ UNCHANGED <<values, region, current_block, lstatus>>

\* build_br, line 873
br_arg_index(op, i) == IF op = "Br" THEN i ELSE i - 1

\* build_br, lines 862-881; i counts from 0 as enumerate() does
RECURSIVE build_br_args(_, _, _, _, _)
build_br_args(op, mapped, i, dest, id) ==
    IF i >= Len(mapped) THEN [ops |-> <<>>, mapped_args |-> <<>>, id |-> id]
    ELSE LET mapped_arg == mapped[i + 1]
             expected_ty ==
                 IF i = 0 /\ op # "Br" THEN "i1"
                 ELSE tblocks[dest].args[br_arg_index(op, i) + 1].ty
         IN  IF ~needs_cast(mapped_arg.ty, expected_ty)
             THEN LET rest == build_br_args(op, mapped, i + 1, dest, id)
                  IN  [rest EXCEPT !.mapped_args = <<mapped_arg>> \o @]
             ELSE LET cast == build_cast(mapped_arg, expected_ty, id)
                      rest == build_br_args(op, mapped, i + 1, dest, id + 1)
                  IN  [rest EXCEPT !.ops = <<cast>> \o @,
                                   !.mapped_args = <<cast.results[1]>> \o @]

current_stays(current, split_block) == current

\* build_br, line 909: building resumes in the split block
current_after_split(current, split_block) == split_block

region_split_block_last(r, current, split_block) == Append(r, split_block)

\* build_br, line 897: where the split block goes in the region
region_after_split(r, current, split_block) ==
    insert_after(r, current, split_block)

split_cond_branch_same_order(op, cond, dest, dest_args, split_block) ==
    build_cond_branch(cond, dest, dest_args, split_block, <<>>)

\* build_br, lines 902-907: the conditional branch of a BrIf goes to the
\* destination when the condition is true; BrUnless swaps the two targets
split_cond_branch(op, cond, dest, dest_args, split_block) ==
    IF op = "BrIf"
    THEN build_cond_branch(cond, dest, dest_args, split_block, <<>>)
    ELSE build_cond_branch(cond, split_block, <<>>, dest, dest_args)

\* build_br, lines 849-915
build_br(inst) ==
    LET dest == blocks[inst.destination]
        args == inst.args
        r == build_br_args(inst.op, [i \in 1..Len(args) |-> values[args[i]]],
                           0, dest, next_id)
        mapped_args == r.mapped_args
    IN  /\ BuildInstCall(inst)
        /\ UNCHANGED <<values, lstatus>>
        /\ IF inst.op = "Br"
           THEN /\ tblocks' = emit(tblocks, current_block,
                                   r.ops \o <<build_branch(dest, mapped_args)>>)
                /\ next_id' = r.id
                /\ UNCHANGED <<region, current_block>>
           ELSE LET split_block == r.id
                    dest_args == Tail(mapped_args)
                    cond == mapped_args[1]
                    cond_branch ==
                        split_cond_branch(inst.op, cond, dest, dest_args,
                                          split_block)
                IN  /\ region' = region_after_split(region, current_block,
                                                    split_block)
                    /\ tblocks' =
                           emit(tblocks, current_block,
                                r.ops \o <<cond_branch>>)
                           @@ (split_block :> [args |-> <<>>, ops |-> <<>>])
                    /\ next_id' = r.id + 1
                    /\ current_block' =
                           current_after_split(current_block, split_block)

\* ---- build_inst, lines 192-219, by the variant of the instruction

BuildUnaryOp ==
    /\ CanBuildInst
    /\ build_unary_op(UnaryOp("IsNull", 2, 5 + NumLowered))

BuildRet ==
    /\ CanBuildInst
    /\ \E is_err \in Operands : build_ret(Ret(is_err, 2))

BuildRetImm ==
    /\ CanBuildInst
    /\ \E returning \in Operands :
          \/ build_ret_imm(ret_ok(returning))
          \/ build_ret_imm(RetImm("none", returning))

BuildBr ==
    /\ CanBuildInst
    /\ \E args \in BranchArgs :
          \/ build_br(br(2, args))
          \/ \E cond \in Operands :
                \/ build_br(br_if(cond, 2, args))
                \/ build_br(br_unless(cond, 2, args))

\* build_inst, line 217: other => unimplemented!
BuildUnimplemented ==
    /\ CanBuildInst
    /\ \/ LowerPanic(cond_br(1, 2, <<2, 1>>, 2, <<2, 1>>))
       \/ LowerPanic(Switch(2, 2))

InitLower ==
    /\ LowerStart
    /\ OthersIdle
    /\ binsts = <<>>
    /\ bvalues = <<>>
    /\ bcall = [fn |-> "new", args |-> <<>>, n |-> 0]
    /\ bstatus = "ok"
    /\ known = DefaultKnown
    /\ fun_known = DefaultKnown
    /\ klast = [op |-> "new", vars |-> {}, recv |-> DefaultKnown]
    /\ khist = <<>>
    /\ khist_ks = {}
    /\ kopen = <<>>

NextLower ==
    \/ BuildFunctionEnter
    \/ switch_to_block
    \/ BuildFunctionOk
    \/ BuildUnaryOp
    \/ BuildRet
    \/ BuildRetImm
    \/ BuildBr
    \/ BuildUnimplemented

SpecLower == InitLower /\ [][NextLower]_vars

(***************************************************************************)
(*        Lowering of the instructions that do not end a block             *)
(***************************************************************************)

\* The number of such instructions handed to build_inst.
MaxOps == 2

CanBuildOp ==
    /\ lstatus = "building"
    /\ current_source_block >= 1
    /\ NumLowered < MaxOps

\* Type::RecvContext, Type::RecvState
RecvContext == [k |-> "recv_context", t |-> "-"]
RecvState == [k |-> "recv_state", t |-> "-"]

\* InstBuilder::PrimOp; results are the values `build` makes for the
\* instruction: one of type ty, none when ty is Type::Invalid
PrimOp(op, ty, args, result) ==
    [kind |-> "PrimOp", op |-> op, args |-> args, ty |-> ty,
     results |-> IF ty = Invalid THEN <<>> ELSE <<result>>]

recv_start(timeout, result) ==
    PrimOp("RecvStart", RecvContext, <<timeout>>, result)

recv_next(recv_context, result) ==
    PrimOp("RecvNext", RecvState, <<recv_context>>, result)

recv_peek(recv_context, result) ==
    PrimOp("RecvPeek", Term("any"), <<recv_context>>, result)

recv_pop(recv_context, result) ==
    PrimOp("RecvPop", Invalid, <<recv_context>>, result)

recv_wait(recv_context, result) ==
    PrimOp("RecvWait", Invalid, <<recv_context>>, result)

\* build_primop, lines 948-978, for the receive primops: the operation of
\* the dialect each is lowered to (build_recv_start, build_recv_next,
\* build_recv_pop, build_yield)
primop_mlir_op(inst, id) ==
    LET arg == values[inst.args[1]]
        recv_next_op ==
            Op("cir.recv_next", <<arg>>,
               <<TValue(id, translate_ir_type(RecvState))>>, <<>>)
    IN  CASE inst.op = "RecvStart" ->
                 Op("cir.recv_start", <<arg>>,
                    <<TValue(id, translate_ir_type(RecvContext))>>, <<>>)
          [] inst.op = "RecvNext" -> recv_next_op
          [] inst.op = "RecvPeek" -> recv_next_op
          [] inst.op = "RecvPop" -> Op("cir.recv_pop", <<arg>>, <<>>, <<>>)
          [] inst.op = "RecvWait" -> Op("cir.yield", <<>>, <<>>, <<>>)

\* lines 980-983: results.iter().zip(mlir_op.results()), inserted in values
map_results(vals, results, op_results) ==
    LET n == IF Len(results) < Len(op_results) THEN Len(results)
             ELSE Len(op_results)
    IN  [v \in {results[i] : i \in 1..n} |->
            op_results[CHOOSE i \in 1..n : results[i] = v]] @@ vals

\* build_primop, lines 938-985
build_primop(inst) ==
    LET mlir_op == primop_mlir_op(inst, next_id)
    IN  /\ BuildInstCall(inst)
        /\ tblocks' = emit(tblocks, current_block, <<mlir_op>>)
        /\ values' = map_results(values, inst.results, mlir_op.results)
        /\ next_id' = next_id + Len(mlir_op.results)
        /\ UNCHANGED <<region, current_block, lstatus>>

BuildPrimOp ==
    /\ CanBuildOp
    /\ \E arg \in Operands :
          \/ build_primop(recv_start(arg, 5 + NumLowered))
          \/ build_primop(recv_next(arg, 5 + NumLowered))
          \/ build_primop(recv_peek(arg, 5 + NumLowered))
          \/ build_primop(recv_pop(arg, 5 + NumLowered))
          \/ build_primop(recv_wait(arg, 5 + NumLowered))

\* InstBuilder::UnaryConst; imm is the item of the constant pool
UnaryConst(op, ty, imm, result) ==
    [kind |-> "UnaryOpConst", op |-> op, args |-> <<>>, imm |-> imm,
     ty |-> ty, results |-> <<result>>]

\* The instructions with a constant-pool operand handed to build_inst: the
\* constants of InstBuilder::bigint, binary, tuple, list and map, and the
\* negation of a boolean constant.
UnaryConsts(result) ==
    {UnaryConst("ConstBigInt", Term("integer"), "bigint", result),
     UnaryConst("ConstBinary", Term("binary"), "binary", result),
     UnaryConst("ConstTuple", Term("tuple"), "tuple", result),
     UnaryConst("ConstList", Term("list"), "list", result),
     UnaryConst("ConstMap", Term("map"), "map", result),
     UnaryConst("Not", Term("bool"), "bool", result)}

\* const_to_constant, lines 162 and 184-187: todo!()
const_to_constant_todo(constant) ==
    constant \in {"bigint", "binary", "tuple", "list", "map"}

\* const_to_constant, lines 151-189, for the constants it builds
const_to_constant(constant, id) ==
    Op("cir.constant", <<>>,
       <<TValue(id, CASE constant = "int" -> "!cir.isize"
                      [] constant = "float" -> "!cir.float"
                      [] constant = "bool" -> "!cir.bool"
                      [] constant = "atom" -> "!cir.atom")>>, <<>>)

\* build_unary_op_const, lines 315-350: the constant is built first; the
\* arms of ConstBigInt .. ConstMap map the result to it, Not builds a not
build_unary_op_const(inst) ==
    IF const_to_constant_todo(inst.imm) THEN LowerPanic(inst)
    ELSE
    LET imm == const_to_constant(inst.imm, next_id)
        mlir_op == Op("cir.not", imm.results,
                      <<TValue(next_id + 1, "!cir.bool")>>, <<>>)
    IN  /\ BuildInstCall(inst)
        /\ tblocks' = emit(tblocks, current_block, <<imm, mlir_op>>)
        /\ values' = map_results(values, inst.results, mlir_op.results)
        /\ next_id' = next_id + 2
        /\ UNCHANGED <<region, current_block, lstatus>>

BuildUnaryOpConst ==
    /\ CanBuildOp
    /\ \E inst \in UnaryConsts(5 + NumLowered) : build_unary_op_const(inst)

\* InstBuilder::SetElement: the index is an immediate, the arguments are the
\* tuple and the value
SetElement(op, tuple, index, value, result) ==
    [kind |-> "SetElement", op |-> op, index |-> index,
     args |-> <<tuple, value>>, ty |-> Term("tuple"), results |-> <<result>>]

set_element(tuple, index, value, result) ==
    SetElement("SetElement", tuple, [isize |-> index], value, result)

\* build_setelement, lines 1077-1079: op.args[0], op.args[1], op.args[2];
\* an index past the end of args panics
build_setelement_panics(inst) == Len(inst.args) < 3

\* build_setelement, lines 1069-1087
build_setelement(inst) ==
    IF build_setelement_panics(inst) THEN LowerPanic(inst)
    ELSE
    LET tuple == values[inst.args[1]]
        index == values[inst.args[2]]
        value == values[inst.args[3]]
        mlir_op == Op("cir.set_element", <<tuple, index, value>>,
                      <<TValue(next_id, "!cir.box<tuple>")>>, <<>>)
    IN  /\ BuildInstCall(inst)
        /\ tblocks' = emit(tblocks, current_block, <<mlir_op>>)
        /\ values' = (inst.results[1] :> mlir_op.results[1]) @@ values
        /\ next_id' = next_id + 1
        /\ UNCHANGED <<region, current_block, lstatus>>

BuildSetElement ==
    /\ CanBuildOp
    /\ \E value \in Operands :
          build_setelement(set_element(2, 2, value, 5 + NumLowered))

NextLowerOps ==
    \/ BuildFunctionEnter
    \/ switch_to_block
    \/ BuildFunctionOk
    \/ BuildPrimOp
    \/ BuildUnaryOpConst
    \/ BuildSetElement

SpecLowerOps == InitLower /\ [][NextLowerOps]_vars

(***************************************************************************)
(*              The receive loop and the mailbox protocol                  *)
(***************************************************************************)

\* The number of messages the mailbox may hold.
MaxMsgs == 2

\* A message either matches the clause of the receive or does not.
Messages == {"match", "other"}

RecvInst(op, targets) == [op |-> op, targets |-> targets]

\* Where the switch on the state returned by recv_next goes.
recv_switch_blocked_to_tmout ==
    [ready |-> "ready", timeout |-> "tmout", blocked |-> "tmout"]

recv_switch ==
    [ready |-> "ready", timeout |-> "tmout", blocked |-> "blocked"]

\* The blocks emitted for `receive M -> M after T -> timeout end`:
\*   c = recv_start(T); loop: s = recv_next(c);
\*   switch s {ready -> peek, match, pop, br done; timeout -> br tmout;
\*             blocked -> recv_wait(c); br loop}
\* A message that does not match leaves the ready block for the loop head.
recv_loop ==
    [entry   |-> <<RecvInst("recv_start", <<>>), RecvInst("br", <<"loop">>)>>,
     loop    |-> <<RecvInst("recv_next", <<>>),
                   RecvInst("switch", recv_switch)>>,
     ready   |-> <<RecvInst("recv_peek", <<>>),
                   RecvInst("match", <<"loop">>),
                   RecvInst("recv_pop", <<>>),
                   RecvInst("br", <<"done">>)>>,
     blocked |-> <<RecvInst("recv_wait", <<>>), RecvInst("br", <<"loop">>)>>,
     tmout   |-> <<>>,
     done    |-> <<>>]

\* next(ctx): ready if a new message is available, timeout if the deadline
\* elapsed, blocked otherwise.
recv_next_state ==
    IF rcursor < Len(rmailbox) THEN "ready"
    ELSE IF relapsed THEN "timeout" ELSE "blocked"

\* peek(ctx): the message at the cursor, not consumed.
recv_peeked ==
    IF rcursor \in 1..Len(rmailbox) THEN rmailbox[rcursor] ELSE "none"

RecvGoto(block) == rpc' = [block |-> block, idx |-> 1]

RecvFallThrough == rpc' = [rpc EXCEPT !.idx = @ + 1]

\* The process executes the instruction rpc points to.
RecvExec ==
    /\ rpc.idx <= Len(recv_loop[rpc.block])
    /\ LET inst == recv_loop[rpc.block][rpc.idx]
       IN  /\ rprev' = inst.op
           /\ rsince' = IF inst.op = "recv_next" THEN <<>>
                        ELSE Append(rsince, inst.op)
           /\ CASE inst.op = "recv_start" ->
                     /\ RecvFallThrough
                     /\ rcursor' = 0
                     /\ UNCHANGED <<rmailbox, rstate, rmatched>>
                [] inst.op = "recv_next" ->
                     /\ RecvFallThrough
                     /\ rstate' = recv_next_state
                     /\ rcursor' = IF recv_next_state = "ready"
                                   THEN rcursor + 1 ELSE rcursor
                     /\ rmatched' = FALSE
                     /\ UNCHANGED rmailbox
                [] inst.op = "switch" ->
                     /\ RecvGoto(inst.targets[rstate])
                     /\ UNCHANGED <<rmailbox, rcursor, rstate, rmatched>>
                [] inst.op = "recv_peek" ->
                     /\ RecvFallThrough
                     /\ rmatched' = (recv_peeked = "match")
                     /\ UNCHANGED <<rmailbox, rcursor, rstate>>
                [] inst.op = "match" ->
                     /\ IF rmatched THEN RecvFallThrough
                        ELSE RecvGoto(inst.targets[1])
                     /\ UNCHANGED <<rmailbox, rcursor, rstate, rmatched>>
                [] inst.op = "recv_pop" ->
                     /\ RecvFallThrough
                     /\ rmailbox' = [i \in 1..(Len(rmailbox) - 1) |->
                                       IF i < rcursor THEN rmailbox[i]
                                       ELSE rmailbox[i + 1]]
                     /\ rcursor' = rcursor - 1
                     /\ UNCHANGED <<rstate, rmatched>>
                [] inst.op = "recv_wait" ->
                     \* wait(ctx) returns once a message arrived or the
                     \* timeout elapsed
                     /\ (rcursor < Len(rmailbox) \/ relapsed)
                     /\ RecvFallThrough
                     /\ UNCHANGED <<rmailbox, rcursor, rstate, rmatched>>
                [] inst.op = "br" ->
                     /\ RecvGoto(inst.targets[1])
                     /\ UNCHANGED <<rmailbox, rcursor, rstate, rmatched>>
    /\ UNCHANGED <<relapsed, kvars, bvars, lvars, mvars, pvars, ivars, fvars, gvars>>

\* Another process sends a message.
RecvDeliver ==
    /\ Len(rmailbox) < MaxMsgs
    /\ \E m \in Messages : rmailbox' = Append(rmailbox, m)
    /\ UNCHANGED <<rpc, rcursor, relapsed, rstate, rmatched, rsince, rprev,
                   kvars, bvars, lvars, mvars, pvars, ivars, fvars, gvars>>

\* The deadline of the receive passes.
RecvElapse ==
    /\ rpc.block # "entry"
    /\ ~relapsed
    /\ relapsed' = TRUE
    /\ UNCHANGED <<rpc, rmailbox, rcursor, rstate, rmatched, rsince, rprev,
                   kvars, bvars, lvars, mvars, pvars, ivars, fvars, gvars>>

InitRecv ==
    /\ OthersIdle
    /\ LowerStart
    /\ binsts = <<>>
    /\ bvalues = <<>>
    /\ bcall = [fn |-> "new", args |-> <<>>, n |-> 0]
    /\ bstatus = "ok"
    /\ known = DefaultKnown
    /\ fun_known = DefaultKnown
    /\ klast = [op |-> "new", vars |-> {}, recv |-> DefaultKnown]
    /\ khist = <<>>
    /\ khist_ks = {}
    /\ kopen = <<>>

NextRecv ==
    \/ RecvExec
    \/ RecvDeliver
    \/ RecvElapse

SpecRecv == InitRecv /\ [][NextRecv]_vars

\* The argument lists the branch builders are called with; block 2, the
\* destination, has two parameters.
BuilderBranchArgs == {<<>>, <<1>>, <<2, 1>>}

\* br, br_if, br_unless and cond_br (builders.rs 568-617) on the builder's
\* function: the type handed to build is Invalid for br and cond_br, the
\* type of the condition for br_if and br_unless.
BuildBranch ==
    /\ CanBuild
    /\ \E args \in BuilderBranchArgs :
          \/ build("br", args,
                   br(2, args) @@ [ty |-> Invalid, imm |-> NoImm])
          \/ build("br_if", <<1>> \o args,
                   br_if(1, 2, args) @@ [ty |-> value_type(1), imm |-> NoImm])
          \/ build("br_unless", <<1>> \o args,
                   br_unless(1, 2, args)
                       @@ [ty |-> value_type(1), imm |-> NoImm])
          \/ build("cond_br", <<1>> \o args,
                   cond_br(1, 2, args, 2, <<2, 1>>)
                       @@ [ty |-> Invalid, imm |-> NoImm])

NextBuilder ==
    \/ BuildArith
    \/ BuildArithImm
    \/ BuildCmp
    \/ BuildCmpImm
    \/ BuildIcmp
    \/ BuildIcmpImm
    \/ BuildIsType
    \/ BuildRetOk
    \/ BuildRetErr
    \/ BuildBranch

(***************************************************************************)
(*                 Declaration of functions in the module                  *)
(***************************************************************************)

\* The number of declarations made in the module.
MaxDecls == 3

\* The function lowerings that may run at the same time.
Lowerings == {1, 2}

\* The signatures declared: module:function/arity, and the visibility.
Signatures ==
    {[mfa |-> "m:f/1", is_public |-> TRUE, is_externally_defined |-> FALSE],
     [mfa |-> "m:g/2", is_public |-> FALSE, is_externally_defined |-> FALSE]}

\* declare_function, lines 82-104: a func operation named after the
\* signature is built at the end of the module body, whatever the module
\* holds already; the handle of the new operation is returned.
declare_function(funcs, sig) ==
    Append(funcs,
           [name |-> sig.mfa,
            vis |-> IF sig.is_public /\ ~sig.is_externally_defined
                    THEN "public" ELSE "private"])

\* get_func_by_symbol: the handles of the operations with that name
get_func_by_symbol(funcs, name) ==
    {h \in 1..Len(funcs) : funcs[h].name = name}

\* A lowering declares a function.
DeclareFunction ==
    /\ Len(mfuncs) < MaxDecls
    /\ \E l \in Lowerings, sig \in Signatures :
          /\ dpc[l] = "idle"
          /\ mfuncs' = declare_function(mfuncs, sig)
          /\ dret' = [dret EXCEPT ![l] =
                         [name |-> sig.mfa, handle |-> Len(mfuncs) + 1]]
          /\ UNCHANGED dpc
    /\ UNCHANGED <<kvars, bvars, lvars, rvars, pvars, ivars, fvars, gvars>>

\* build_call, line 1037: get_or_declare_function looks the symbol up ...
GetOrDeclareLookup ==
    /\ \E l \in Lowerings, sig \in Signatures :
          /\ dpc[l] = "idle"
          /\ IF get_func_by_symbol(mfuncs, sig.mfa) # {}
             THEN /\ \E h \in get_func_by_symbol(mfuncs, sig.mfa) :
                        dret' = [dret EXCEPT ![l] =
                                    [name |-> sig.mfa, handle |-> h]]
                  /\ UNCHANGED dpc
             ELSE /\ dpc' = [dpc EXCEPT ![l] = sig.mfa]
                  /\ UNCHANGED dret
    /\ UNCHANGED <<mfuncs, kvars, bvars, lvars, rvars, pvars, ivars, fvars, gvars>>

\* ... and declares it when the lookup found nothing.
GetOrDeclareDeclare ==
    /\ Len(mfuncs) < MaxDecls
    /\ \E l \in Lowerings, sig \in Signatures :
          /\ dpc[l] = sig.mfa
          /\ mfuncs' = declare_function(mfuncs, sig)
          /\ dret' = [dret EXCEPT ![l] =
                         [name |-> sig.mfa, handle |-> Len(mfuncs) + 1]]
          /\ dpc' = [dpc EXCEPT ![l] = "idle"]
    /\ UNCHANGED <<kvars, bvars, lvars, rvars, pvars, ivars, fvars, gvars>>

InitDeclare ==
    /\ OthersIdle
    /\ LowerStart
    /\ binsts = <<>>
    /\ bvalues = <<>>
    /\ bcall = [fn |-> "new", args |-> <<>>, n |-> 0]
    /\ bstatus = "ok"
    /\ known = DefaultKnown
    /\ fun_known = DefaultKnown
    /\ klast = [op |-> "new", vars |-> {}, recv |-> DefaultKnown]
    /\ khist = <<>>
    /\ khist_ks = {}
    /\ kopen = <<>>

NextDeclare ==
    \/ DeclareFunction
    \/ GetOrDeclareLookup
    \/ GetOrDeclareDeclare

SpecDeclare == InitDeclare /\ [][NextDeclare]_vars

(***************************************************************************)
(*                    The flags of a runtime process                       *)
(***************************************************************************)

\* The number of calls made on the process.
MaxCalls == 4

\* ProcessFlags::TrapExit
TrapExit == "TrapExit"

\* process(), test.rs lines 54-74: a new process has no flag set
process == {}

\* Process::are_flags_set: every flag asked for is set
are_flags_set(flags, asked) == asked \subseteq flags

\* Process::traps_exit
traps_exit(flags) == are_flags_set(flags, {TrapExit})

\* Process::trap_exit(value) that answers with the value it has just set
trap_exit_returns_new(flags, value) ==
    [flags |-> IF value THEN flags \cup {TrapExit} ELSE flags \ {TrapExit},
     ret |-> value]

\* Process::trap_exit(value): sets or clears the flag, and returns whether
\* it was set before.
trap_exit(flags, value) ==
    [flags |-> IF value THEN flags \cup {TrapExit} ELSE flags \ {TrapExit},
     ret |-> TrapExit \in flags]

CanCall == Len(phist) < MaxCalls

\* process.trap_exit(value)
TrapExitCall ==
    /\ CanCall
    /\ \E value \in BOOLEAN :
          /\ pflags' = trap_exit(pflags, value).flags
          /\ phist' = Append(phist, [op |-> "trap_exit", arg |-> value,
                                     ret |-> trap_exit(pflags, value).ret])
    /\ UNCHANGED <<kvars, bvars, lvars, rvars, mvars, ivars, fvars, gvars>>

\* process.traps_exit()
TrapsExitCall ==
    /\ CanCall
    /\ phist' = Append(phist, [op |-> "traps_exit", arg |-> FALSE,
                               ret |-> traps_exit(pflags)])
    /\ UNCHANGED <<pflags, kvars, bvars, lvars, rvars, mvars, ivars, fvars, gvars>>

\* process.are_flags_set(ProcessFlags::TrapExit)
AreFlagsSetCall ==
    /\ CanCall
    /\ phist' = Append(phist, [op |-> "are_flags_set", arg |-> FALSE,
                               ret |-> are_flags_set(pflags, {TrapExit})])
    /\ UNCHANGED <<pflags, kvars, bvars, lvars, rvars, mvars, ivars, fvars, gvars>>

InitProcess ==
    /\ OthersIdle
    /\ LowerStart
    /\ binsts = <<>>
    /\ bvalues = <<>>
    /\ bcall = [fn |-> "new", args |-> <<>>, n |-> 0]
    /\ bstatus = "ok"
    /\ known = DefaultKnown
    /\ fun_known = DefaultKnown
    /\ klast = [op |-> "new", vars |-> {}, recv |-> DefaultKnown]
    /\ khist = <<>>
    /\ khist_ks = {}
    /\ kopen = <<>>

NextProcess ==
    \/ TrapExitCall
    \/ TrapsExitCall
    \/ AreFlagsSetCall

SpecProcess == InitProcess /\ [][NextProcess]_vars

(***************************************************************************)
(*                 main_internal of the minimal runtime                    *)
(***************************************************************************)

\* The scheduler cycles main_internal is followed through.
MaxCycles == 4

\* What the break handler may broadcast: SIGINT, a signal that should
\* terminate, and a signal that is left to the rest of the system.
Signals == {"INT", "TERM", "CHLD"}

\* Signal::should_terminate, as the match at line 89 uses it
should_terminate(s) == s \in {"INT", "TERM"}

\* What scheduler.shutdown() may return.
ShutdownResults == {"ok", "err"}

\* Line 72: let scheduled = scheduler.run_once();
RunOnce ==
    /\ mi_pc = "run_once"
    /\ mi_cycles < MaxCycles
    /\ mi_cycles' = mi_cycles + 1
    /\ \E scheduled \in BOOLEAN : mi_scheduled' = scheduled
    /\ mi_pc' = "try_recv"
    /\ UNCHANGED <<mi_sig, mi_shutdowns, mi_result>>
    /\ UNCHANGED <<kvars, bvars, lvars, rvars, mvars, pvars, fvars, gvars>>

\* Line 74: if let Ok(sig) = rx1.try_recv()
TryRecv ==
    /\ mi_pc = "try_recv"
    /\ \E s \in Signals \cup {"none"} :
          /\ mi_sig' = s
          /\ mi_pc' = IF s = "none" THEN "if_scheduled" ELSE "match_sig"
    /\ UNCHANGED <<mi_cycles, mi_scheduled, mi_shutdowns, mi_result>>
    /\ UNCHANGED <<kvars, bvars, lvars, rvars, mvars, pvars, fvars, gvars>>

\* Lines 77-84: SIGINT shuts the scheduler down; an error is returned, and
\* otherwise the loop is left.
MatchInt ==
    /\ mi_pc = "match_sig"
    /\ mi_sig = "INT"
    /\ \E r \in ShutdownResults :
          /\ mi_shutdowns' = Append(mi_shutdowns, r)
          /\ IF r = "err"
             THEN /\ mi_result' = "err"
                  /\ mi_pc' = "returned"
             ELSE /\ mi_result' = mi_result
                  /\ mi_pc' = "after_loop"
    /\ UNCHANGED <<mi_cycles, mi_scheduled, mi_sig>>
    /\ UNCHANGED <<kvars, bvars, lvars, rvars, mvars, pvars, fvars, gvars>>

\* Lines 89-91: sig if sig.should_terminate() => return Ok(())
MatchTerminate ==
    /\ mi_pc = "match_sig"
    /\ mi_sig # "INT"
    /\ should_terminate(mi_sig)
    /\ mi_result' = "ok"
    /\ mi_pc' = "returned"
    /\ UNCHANGED <<mi_cycles, mi_scheduled, mi_sig, mi_shutdowns>>
    /\ UNCHANGED <<kvars, bvars, lvars, rvars, mvars, pvars, fvars, gvars>>

\* Line 94: _ => ()
MatchOther ==
    /\ mi_pc = "match_sig"
    /\ mi_sig # "INT"
    /\ ~should_terminate(mi_sig)
    /\ mi_pc' = "if_scheduled"
    /\ UNCHANGED <<mi_cycles, mi_scheduled, mi_sig, mi_shutdowns, mi_result>>
    /\ UNCHANGED <<kvars, bvars, lvars, rvars, mvars, pvars, fvars, gvars>>

\* Lines 99-103: if scheduled { continue; } break;
IfScheduled ==
    /\ mi_pc = "if_scheduled"
    /\ mi_pc' = IF mi_scheduled THEN "run_once" ELSE "after_loop"
    /\ UNCHANGED <<mi_cycles, mi_scheduled, mi_sig, mi_shutdowns, mi_result>>
    /\ UNCHANGED <<kvars, bvars, lvars, rvars, mvars, pvars, fvars, gvars>>

\* Lines 106-109: match scheduler.shutdown()
AfterLoop ==
    /\ mi_pc = "after_loop"
    /\ \E r \in ShutdownResults :
          /\ mi_shutdowns' = Append(mi_shutdowns, r)
          /\ mi_result' = r
    /\ mi_pc' = "returned"
    /\ UNCHANGED <<mi_cycles, mi_scheduled, mi_sig>>
    /\ UNCHANGED <<kvars, bvars, lvars, rvars, mvars, pvars, fvars, gvars>>

InitMain ==
    /\ OthersIdle
    /\ LowerStart
    /\ binsts = <<>>
    /\ bvalues = <<>>
    /\ bcall = [fn |-> "new", args |-> <<>>, n |-> 0]
    /\ bstatus = "ok"
    /\ known = DefaultKnown
    /\ fun_known = DefaultKnown
    /\ klast = [op |-> "new", vars |-> {}, recv |-> DefaultKnown]
    /\ khist = <<>>
    /\ khist_ks = {}
    /\ kopen = <<>>

NextMain ==
    \/ RunOnce
    \/ TryRecv
    \/ MatchInt
    \/ MatchTerminate
    \/ MatchOther
    \/ IfScheduled
    \/ AfterLoop

SpecMain == InitMain /\ [][NextMain]_vars

(***************************************************************************)
(*            FunctionContext: the names the normalizer generates          *)
(***************************************************************************)

\* The number of names generated in one function.
MaxNames == 7

\* The largest n next_n_vars is called with.
MaxN == 3

\* f.var_counter as the parser left it (FunctionContext::new, line 169).
VarCounterStarts == {0, 8, 98}

\* The decimal digits of id, as format!("{}", id) writes them.
RECURSIVE Decimal(_)
Decimal(id) ==
    IF id < 10 THEN <<id>> ELSE Append(Decimal(id \div 10), id % 10)

\* next_var_name that does not advance the counter
next_var_name_keeps_counter(counter) ==
    [counter |-> counter, name |-> <<"$">> \o Decimal(counter)]

\* next_var_name, lines 187-196: the name is "$" and the counter; the counter
\* is advanced by one.
next_var_name(counter) ==
    [counter |-> counter + 1, name |-> <<"$">> \o Decimal(counter)]

\* next_var, lines 198-205: a compiler-generated Var of that name
next_var(counter) ==
    LET r == next_var_name(counter)
    IN  [counter |-> r.counter,
         var |-> [annotations |-> "compiler_generated",
                  name |-> r.name,
                  arity |-> "None"]]

\* next_n_vars, lines 207-209: (0..n).map(|_| self.next_var(span)).collect()
RECURSIVE next_n_vars(_, _)
next_n_vars(counter, n) ==
    IF n = 0 THEN [counter |-> counter, vars |-> <<>>]
    ELSE LET r == next_var(counter)
             rest == next_n_vars(r.counter, n - 1)
         IN  [counter |-> rest.counter, vars |-> <<r.var>> \o rest.vars]

\* The call is recorded with the names it returned.
ContextStep(op, n, counter, names) ==
    /\ var_counter' = counter
    /\ fc_names' = fc_names \o names
    /\ fc_last' = [op |-> op, n |-> n, counter |-> var_counter, names |-> names]
    /\ UNCHANGED fc_start
    /\ UNCHANGED <<kvars, bvars, lvars, rvars, mvars, pvars, ivars, gvars>>

NextVarName ==
    /\ Len(fc_names) < MaxNames
    /\ LET r == next_var_name(var_counter)
       IN  ContextStep("next_var_name", 1, r.counter, <<r.name>>)

NextVar ==
    /\ Len(fc_names) < MaxNames
    /\ LET r == next_var(var_counter)
       IN  ContextStep("next_var", 1, r.counter, <<r.var.name>>)

NextNVars ==
    \E n \in 0..MaxN :
        /\ Len(fc_names) + n <= MaxNames
        /\ LET r == next_n_vars(var_counter, n)
           IN  ContextStep("next_n_vars", n, r.counter,
                           [i \in 1..Len(r.vars) |-> r.vars[i].name])

InitContext ==
    /\ RecvIdle
    /\ DeclareIdle
    /\ ProcessIdle
    /\ MainIdle
    /\ MergeIdle
    /\ fc_start \in VarCounterStarts
    /\ var_counter = fc_start
    /\ fc_names = <<>>
    /\ fc_last = [op |-> "new", n |-> 0, counter |-> fc_start, names |-> <<>>]
    /\ LowerStart
    /\ binsts = <<>>
    /\ bvalues = <<>>
    /\ bcall = [fn |-> "new", args |-> <<>>, n |-> 0]
    /\ bstatus = "ok"
    /\ known = DefaultKnown
    /\ fun_known = DefaultKnown
    /\ klast = [op |-> "new", vars |-> {}, recv |-> DefaultKnown]
    /\ khist = <<>>
    /\ khist_ks = {}
    /\ kopen = <<>>

NextContext ==
    \/ NextVarName
    \/ NextVar
    \/ NextNVars

SpecContext == InitContext /\ [][NextContext]_vars

(***************************************************************************)
(*                            maps:merge/2                                 *)
(***************************************************************************)

MapKeys == {"a", "b"}

MapValues == {1, 2}

\* strategy::term::is_map: the maps over the keys
MapTerms ==
    UNION {{[tag |-> "map", entries |-> f] : f \in [ks -> MapValues]} :
              ks \in SUBSET MapKeys}

\* strategy::term::is_not_map: terms of the other types
NonMapTerms ==
    {[tag |-> "atom", entries |-> <<>>],
     [tag |-> "integer", entries |-> <<>>],
     [tag |-> "tuple", entries |-> <<>>],
     [tag |-> "list", entries |-> <<>>]}

is_map(term) == term.tag = "map"

\* badmap!(process, term)
badmap(term) == [tag |-> "error", reason |-> "badmap", term |-> term]

\* The entries of map1 and map2; where both have a key, map2's value.
merged(map1, map2) ==
    [tag |-> "map",
     entries |-> [k \in DOMAIN map1.entries \cup DOMAIN map2.entries |->
                     IF k \in DOMAIN map2.entries
                     THEN map2.entries[k] ELSE map1.entries[k]]]

\* maps:merge/2 that blames its first argument
native_blames_map1(map1, map2) ==
    IF ~is_map(map1) \/ ~is_map(map2) THEN badmap(map1)
    ELSE [tag |-> "ok", term |-> merged(map1, map2)]

\* maps:merge/2
native(map1, map2) ==
    IF ~is_map(map1) THEN badmap(map1)
    ELSE IF ~is_map(map2) THEN badmap(map2)
    ELSE [tag |-> "ok", term |-> merged(map1, map2)]

\* native(&arc_process, map1, map2) with a map and a term that is not one
MergeWithMapMap1 ==
    /\ \E map1 \in MapTerms, map2 \in NonMapTerms :
          /\ mg_args' = <<map1, map2>>
          /\ mg_result' = native(map1, map2)
    /\ UNCHANGED <<kvars, bvars, lvars, rvars, mvars, pvars, ivars, fvars>>

\* with two maps (test/with_map_map1/with_map_map2)
MergeWithMapMap2 ==
    /\ \E map1 \in MapTerms, map2 \in MapTerms :
          /\ mg_args' = <<map1, map2>>
          /\ mg_result' = native(map1, map2)
    /\ UNCHANGED <<kvars, bvars, lvars, rvars, mvars, pvars, ivars, fvars>>

\* with a first argument that is not a map
MergeWithoutMapMap1 ==
    /\ \E map1 \in NonMapTerms, map2 \in MapTerms \cup NonMapTerms :
          /\ mg_args' = <<map1, map2>>
          /\ mg_result' = native(map1, map2)
    /\ UNCHANGED <<kvars, bvars, lvars, rvars, mvars, pvars, ivars, fvars>>

InitMerge ==
    /\ OthersIdle
    /\ LowerStart
    /\ binsts = <<>>
    /\ bvalues = <<>>
    /\ bcall = [fn |-> "new", args |-> <<>>, n |-> 0]
    /\ bstatus = "ok"
    /\ known = DefaultKnown
    /\ fun_known = DefaultKnown
    /\ klast = [op |-> "new", vars |-> {}, recv |-> DefaultKnown]
    /\ khist = <<>>
    /\ khist_ks = {}
    /\ kopen = <<>>

NextMerge ==
    \/ MergeWithMapMap1
    \/ MergeWithMapMap2
    \/ MergeWithoutMapMap1

SpecMerge == InitMerge /\ [][NextMerge]_vars

SpecBuilder == InitBuilder /\ [][NextBuilder]_vars

\* The normalizer as it brackets the bodies of a group: end_body and
\* end_group are called while a group is open.
GroupEndBody ==
    /\ kopen # <<>>
    /\ EndBody

GroupEndGroup ==
    /\ kopen # <<>>
    /\ EndGroup

NextKnownGroups ==
    \/ StartGroup
    \/ GroupEndBody
    \/ GroupEndGroup
    \/ Union
    \/ Bind

SpecKnownGroups == InitKnown /\ [][NextKnownGroups]_vars

SpecKnown == InitKnown /\ [][NextKnown]_vars

(***************************************************************************)
(*                        Properties: builders                             *)
(***************************************************************************)

\* C1: for every arithmetic binary builder (add, sub, mul, fdiv) applied to
\* two term-typed values, the result type is the numeric join of the type of
\* lhs and the type of rhs: integer only if both are integer, otherwise float.
C1_ArithResultIsNumericJoin ==
    \A i \in 1..Len(binsts) :
        LET inst == binsts[i] IN
        (/\ inst.kind = "BinaryOp"
         /\ inst.op \in ArithOps
         /\ IsTerm(bvalues[inst.args[1]])
         /\ IsTerm(bvalues[inst.args[2]]))
        => inst.ty = Term(IF /\ bvalues[inst.args[1]].t = "integer"
                             /\ bvalues[inst.args[2]].t = "integer"
                          THEN "integer" ELSE "float")

\* C2: every comparison builder (eq .. lte, their _imm forms, icmp_eq ..
\* icmp_lte) produces a result of type i1, whatever its operand types.
C2_ComparisonYieldsI1 ==
    \A i \in 1..Len(binsts) :
        binsts[i].op \in CmpOps \cup IcmpOps => binsts[i].ty = Primitive("i1")

\* C17: the is_type builder produces a result of type i1, for any value and
\* any static type.
C17_IsTypeYieldsI1 ==
    \A i \in 1..Len(binsts) :
        binsts[i].kind = "IsType" => binsts[i].ty = Primitive("i1")

\* C18: after any sequence of builder calls, no branch in the function
\* (br, br_if, br_unless, cond_br) passes a number of arguments different
\* from the number of parameters of its destination block.
C18_BranchArityChecked ==
    \A i \in 1..Len(binsts) :
        LET inst == binsts[i]
        IN  /\ inst.kind = "Br" =>
                  Len(IF inst.op = "Br" THEN inst.args ELSE Tail(inst.args))
                      = Len(block_params(inst.destination))
            /\ inst.kind = "CondBr" =>
                  /\ Len(inst.then_args) = Len(block_params(inst.then_dest))
                  /\ Len(inst.else_args) = Len(block_params(inst.else_dest))

\* C8: ret_ok(v) builds exactly one RetImm with the immediate flag i1 false
\* and the argument v, ret_err(v) exactly one RetImm with the flag i1 true and
\* the argument v; both are terminators of result type Invalid (no result
\* value) and differ only in the flag.
C8_RetOkRetErr ==
    bcall.fn \in {"ret_ok", "ret_err"} =>
        /\ Len(binsts) = bcall.n + 1
        /\ binsts[Len(binsts)] =
              [kind |-> "RetImm", op |-> "Ret", args |-> bcall.args,
               imm |-> IF bcall.fn = "ret_ok" THEN "i1:false" ELSE "i1:true",
               ty |-> Invalid]
        /\ is_terminator(binsts[Len(binsts)].op)

\* A ret_err of the second block parameter.
C8_Witness ==
    /\ bcall.fn = "ret_err"
    /\ bcall.args = <<2>>
    /\ Len(binsts) = bcall.n + 1
    /\ binsts[Len(binsts)].imm = "i1:true"
    /\ binsts[Len(binsts)].args = <<2>>

(***************************************************************************)
(*                        Properties: Known                                *)
(***************************************************************************)

\* C3: from a Known with ks = B and both stacks empty, start_group, union(S),
\* end_body, known_in_fun yields a Known whose ks is exactly B: the names
\* bound before the group are known in the fun and the names the preceding
\* sibling introduced (S \ B) are not.
C3_SiblingNamesHidden ==
    khist = <<"start_group", "union", "end_body", "known_in_fun">>
        => fun_known.ks = khist_ks

\* The documented example: A = 1, {X = 2, fun() -> X = 99, A = 1 end()}.
C3_Witness ==
    /\ khist = <<"start_group", "union", "end_body", "known_in_fun">>
    /\ khist_ks = {"A"}
    /\ known.ks = {"A", "X"}
    /\ fun_known.ks = {"A"}

\* C4: known_in_fun on a Known whose two stacks are non-empty returns
\* ks' = (ks minus top(prev_ks)) union top(base) with both stacks empty; when
\* base or prev_ks is empty it returns a Known equal to the receiver.
C4_KnownInFunResult ==
    klast.op = "known_in_fun" =>
        IF known.base # <<>> /\ known.prev_ks # <<>>
        THEN /\ fun_known.ks =
                    (known.ks \ known.prev_ks[Len(known.prev_ks)])
                        \cup known.base[Len(known.base)]
             /\ fun_known.base = <<>>
             /\ fun_known.prev_ks = <<>>
        ELSE fun_known = known

\* A fun entered in a group whose earlier sibling bound X: X is dropped.
C4_Witness ==
    /\ klast.op = "known_in_fun"
    /\ known.base # <<>>
    /\ known.prev_ks # <<>>
    /\ fun_known.ks # known.ks
    /\ known.prev_ks[Len(known.prev_ks)] # {}
    /\ known.base[Len(known.base)] # {}

\* The other branch: a fun entered with prev_ks non-empty and base empty.
C4_WitnessEarlyReturn ==
    /\ klast.op = "known_in_fun"
    /\ known.base = <<>>
    /\ known.prev_ks # <<>>
    /\ fun_known = known

\* C22: start_group pushes an empty set onto prev_ks and the current ks onto
\* base: each stack is one deeper, ks and the earlier entries of both stacks
\* are as they were.
C22_StartGroupFrame ==
    klast.op = "start_group" =>
        /\ Len(known.prev_ks) = Len(klast.recv.prev_ks) + 1
        /\ Len(known.base) = Len(klast.recv.base) + 1
        /\ known.prev_ks[Len(known.prev_ks)] = {}
        /\ known.base[Len(known.base)] = klast.recv.ks
        /\ known.ks = klast.recv.ks
        /\ \A i \in 1..Len(klast.recv.prev_ks) :
              known.prev_ks[i] = klast.recv.prev_ks[i]
        /\ \A i \in 1..Len(klast.recv.base) :
              known.base[i] = klast.recv.base[i]

\* A group started inside another group, with names already known.
C22_Witness ==
    /\ klast.op = "start_group"
    /\ klast.recv.ks # {}
    /\ klast.recv.base # <<>>
    /\ klast.recv.prev_ks # <<>>

\* C23: end_body replaces the top of prev_ks with the current ks: afterwards
\* the top of prev_ks is ks, prev_ks is as deep as before, and ks, base and
\* the lower entries of prev_ks are as they were.
C23_EndBodyFrame ==
    klast.op = "end_body" =>
        /\ known.prev_ks # <<>>
        /\ known.prev_ks[Len(known.prev_ks)] = known.ks
        /\ Len(known.prev_ks) = Len(klast.recv.prev_ks)
        /\ known.ks = klast.recv.ks
        /\ known.base = klast.recv.base
        /\ \A i \in 1..(Len(klast.recv.prev_ks) - 1) :
              known.prev_ks[i] = klast.recv.prev_ks[i]

\* C24: end_group pops the top entry of base and of prev_ks and leaves ks as
\* it was; so the end_group that closes a group leaves base and prev_ks as
\* the start_group of that group found them, whatever union, bind and
\* end_body steps came in between.
C24_EndGroupRestores ==
    [][klast'.op = "end_group" =>
          /\ known'.ks = known.ks
          /\ known.base # <<>> =>
                known'.base = SubSeq(known.base, 1, Len(known.base) - 1)
          /\ known.prev_ks # <<>> =>
                known'.prev_ks = SubSeq(known.prev_ks, 1, Len(known.prev_ks) - 1)
          /\ kopen # <<>> =>
                /\ known'.base = kopen[Len(kopen)].base
                /\ known'.prev_ks = kopen[Len(kopen)].prev_ks]_vars

\* An inner group was closed whose last body had ended with names known.
C24_Witness ==
    /\ klast.op = "end_group"
    /\ Len(klast.recv.base) = 2
    /\ Len(klast.recv.prev_ks) = 2
    /\ klast.recv.prev_ks[2] # {}
    /\ klast.recv.ks # klast.recv.base[2]

\* C25: union(S) returns a Known whose ks is the receiver's ks together with
\* S and whose base and prev_ks are the receiver's.
C25_UnionFrame ==
    klast.op = "union" =>
        /\ known.ks = klast.recv.ks \cup klast.vars
        /\ known.base = klast.recv.base
        /\ known.prev_ks = klast.recv.prev_ks

\* New names were added to known ones, inside a group.
C25_Witness ==
    /\ klast.op = "union"
    /\ klast.recv.ks # {}
    /\ klast.vars \ klast.recv.ks # {}
    /\ klast.recv.base # <<>>
    /\ klast.recv.prev_ks # <<>>

\* C26: bind(S) returns a Known whose top of prev_ks is the receiver's top
\* without S, with ks, base, the depth of prev_ks and its lower entries as
\* in the receiver; with prev_ks empty it returns a Known equal to the
\* receiver.
C26_BindFrame ==
    klast.op = "bind" =>
        IF klast.recv.prev_ks = <<>>
        THEN known = klast.recv
        ELSE /\ Len(known.prev_ks) = Len(klast.recv.prev_ks)
             /\ known.prev_ks[Len(known.prev_ks)] =
                    klast.recv.prev_ks[Len(klast.recv.prev_ks)] \ klast.vars
             /\ \A i \in 1..(Len(klast.recv.prev_ks) - 1) :
                   known.prev_ks[i] = klast.recv.prev_ks[i]
             /\ known.ks = klast.recv.ks
             /\ known.base = klast.recv.base

\* A name recorded by end_body was bound in the next body of the group.
C26_Witness ==
    /\ klast.op = "bind"
    /\ klast.recv.prev_ks # <<>>
    /\ klast.vars \cap klast.recv.prev_ks[Len(klast.recv.prev_ks)] # {}
    /\ known.prev_ks # klast.recv.prev_ks

\* bind with no group open
C26_WitnessEmpty ==
    /\ klast.op = "bind"
    /\ klast.recv.prev_ks = <<>>
    /\ klast.vars # {}
    /\ klast.recv.ks # {}

\* C27: when every end_body and end_group is called with a group open, base
\* and prev_ks are equally deep, as deep as there are open groups.
C27_DepthIsOpenGroups ==
    /\ Len(known.base) = Len(kopen)
    /\ Len(known.prev_ks) = Len(kopen)

\* The body of an inner group has just ended.
C27_Witness ==
    /\ klast.op = "end_body"
    /\ Len(kopen) = 2
    /\ known.ks # {}

\* C28: every snapshot in base and in prev_ks is a subset of the current ks,
\* and so is the set known_in_fun makes known in a fun.
C28_SnapshotsWithinKs ==
    /\ \A i \in 1..Len(known.base) : known.base[i] \subseteq known.ks
    /\ \A i \in 1..Len(known.prev_ks) : known.prev_ks[i] \subseteq known.ks
    /\ klast.op = "known_in_fun" => fun_known.ks \subseteq known.ks

\* A fun entered in an inner group, with fewer names known inside than
\* outside.
C28_Witness ==
    /\ klast.op = "known_in_fun"
    /\ Len(known.base) = 2
    /\ Len(known.prev_ks) = 2
    /\ fun_known.ks # {}
    /\ fun_known.ks # known.ks

(***************************************************************************)
(*                        Properties: lowering                             *)
(***************************************************************************)

\* The operations of the dialect that end a block.
IsTerminatorOp(o) == o.name \in {"cf.br", "cf.cond_br", "cir.return"}

\* The operations the latest build_inst call appended to the block that was
\* current when it was called.
LastEmitted ==
    SubSeq(tblocks[llast.current_block].ops,
           Len(llast.tblocks[llast.current_block].ops) + 1,
           Len(tblocks[llast.current_block].ops))

\* v was passed as it is when its type is ty; otherwise exactly one of the
\* given operations is a cast of v to ty, and its result was passed.
PassedOrCastOnce(v, ty, passed, ops) ==
    IF v.ty = ty THEN passed = v
    ELSE /\ passed # v
         /\ passed.ty = ty
         /\ Cardinality({i \in 1..Len(ops) :
                            /\ ops[i].name = "cir.cast"
                            /\ ops[i].operands = <<v>>
                            /\ ops[i].results = <<passed>>}) = 1
         /\ Cardinality({i \in 1..Len(ops) :
                            /\ ops[i].results # <<>>
                            /\ ops[i].results[1] = passed}) = 1

\* Every block of the function being lowered ends with exactly one
\* terminator.
C5_SourceWellTerminated ==
    \A b \in DOMAIN lfun :
        /\ lfun[b] # <<>>
        /\ is_terminator(Last(lfun[b]).op)
        /\ \A i \in 1..(Len(lfun[b]) - 1) : ~is_terminator(lfun[b][i].op)

\* C5: when build_function returns Ok for a function each of whose blocks
\* ends with exactly one terminator, every block of the target region, the
\* blocks made by splitting at a BrIf/BrUnless included, ends with exactly
\* one terminator operation and has no operation after it.
C5_TargetBlocksTerminated ==
    (lstatus = "done" /\ C5_SourceWellTerminated) =>
        \A p \in 1..Len(region) :
            LET ops == tblocks[region[p]].ops
            IN  /\ ops # <<>>
                /\ IsTerminatorOp(Last(ops))
                /\ \A i \in 1..(Len(ops) - 1) : ~IsTerminatorOp(ops[i])

\* A function with a BrIf in its entry block was lowered: the entry block
\* was split, and the three target blocks are terminated.
C5_Witness ==
    /\ lstatus = "done"
    /\ C5_SourceWellTerminated
    /\ Len(lfun[1]) = 2
    /\ lfun[1][1].op = "BrIf"
    /\ Len(region) = 3
    /\ Last(tblocks[region[1]].ops).name = "cf.cond_br"
    /\ Last(tblocks[region[2]].ops).name = "cir.return"

\* C6: build_br keeps the number and the order of the destination
\* arguments; an argument whose type is the type of the matching parameter
\* of the destination is passed as it is, any other is replaced by the
\* result of exactly one cast to that type; the condition of a BrIf/BrUnless
\* is not a destination argument and is cast to i1 exactly when its type is
\* not i1; only these casts are emitted, and no mapped value changes.
C6_BranchArgsCast ==
    llast.inst.kind = "Br" =>
        LET inst == llast.inst
            emitted == LastEmitted
            casts == SubSeq(emitted, 1, Len(emitted) - 1)
            branch == Last(emitted)
            dest == blocks[inst.destination]
            params == tblocks[dest].args
            dest_args == IF inst.op = "Br" THEN inst.args ELSE Tail(inst.args)
            passed == (CHOOSE s \in {branch.successors[i] :
                                        i \in 1..Len(branch.successors)} :
                          s.block = dest).args
            differing ==
                {k \in 1..Len(dest_args) :
                    llast.values[dest_args[k]].ty # params[k].ty}
            cond_differs ==
                inst.op # "Br" /\ llast.values[inst.args[1]].ty # "i1"
        IN  /\ lstatus # "panic"
            /\ Len(passed) = Len(dest_args)
            /\ \A k \in 1..Len(dest_args) :
                  PassedOrCastOnce(llast.values[dest_args[k]], params[k].ty,
                                   passed[k], casts)
            /\ inst.op # "Br" =>
                  /\ Len(branch.operands) = 1
                  /\ PassedOrCastOnce(llast.values[inst.args[1]], "i1",
                                      branch.operands[1], casts)
            /\ Len(casts) = Cardinality(differing)
                              + (IF cond_differs THEN 1 ELSE 0)
            /\ \A i \in 1..Len(casts) : casts[i].name = "cir.cast"
            /\ values = llast.values

\* A BrIf whose condition is an integer term and whose arguments both
\* differ from the parameters of the destination: three casts, then the
\* conditional branch.
C6_Witness ==
    /\ llast.inst.kind = "Br"
    /\ llast.inst.op = "BrIf"
    /\ llast.inst.args = <<2, 1, 2>>
    /\ Len(LastEmitted) = 4
    /\ LastEmitted[4].name = "cf.cond_br"
    /\ LastEmitted[4].operands[1].ty = "i1"

\* C7: a RetImm made by ret_ok(v) is lowered to a return of two operands,
\* the i1 flag false and the lowered v.
C7_RetOkLowered ==
    (llast.inst.kind = "RetImm" /\ llast.inst.imm = "i1:false") =>
        /\ lstatus # "panic"
        /\ LastEmitted # <<>>
        /\ Last(LastEmitted).name = "cir.return"
        /\ Len(Last(LastEmitted).operands) = 2
        /\ Last(LastEmitted).operands[1].ty = "i1"
        /\ Last(LastEmitted).operands[2] = llast.values[llast.inst.args[1]]

\* C9: build_ret returns as many operands as the Ret has, in the same
\* order; the operand at position i is the mapped value when its type is
\* the i-th result type of the function, otherwise the result of exactly
\* one cast of it to that type; only these casts are emitted.
C9_RetOperandsCast ==
    llast.inst.kind = "Ret" =>
        LET inst == llast.inst
            emitted == LastEmitted
            casts == SubSeq(emitted, 1, Len(emitted) - 1)
            return == Last(emitted)
            result_ty(i) == translate_ir_type(SignatureResults[i])
        IN  /\ lstatus # "panic"
            /\ return.name = "cir.return"
            /\ Len(return.operands) = Len(inst.args)
            /\ \A i \in 1..Len(inst.args) :
                  PassedOrCastOnce(llast.values[inst.args[i]], result_ty(i),
                                   return.operands[i], casts)
            /\ Len(casts) =
                  Cardinality({i \in 1..Len(inst.args) :
                                  llast.values[inst.args[i]].ty # result_ty(i)})
            /\ \A i \in 1..Len(casts) : casts[i].name = "cir.cast"

\* A Ret of an i1 flag and an integer term from a function returning
\* (i1, term): the flag is returned as it is, the integer through a cast.
C9_Witness ==
    /\ llast.inst.kind = "Ret"
    /\ llast.inst.args = <<1, 2>>
    /\ Len(LastEmitted) = 2
    /\ LastEmitted[1].name = "cir.cast"
    /\ LastEmitted[1].results[1].ty = "!cir.term"
    /\ LastEmitted[2].operands = <<llast.values[1], LastEmitted[1].results[1]>>

\* C10: lowering a BrIf or BrUnless makes exactly one new block, puts it
\* right after the block that was current, ends that block with the
\* conditional branch and makes the new block current; an instruction
\* lowered afterwards is appended to the current block only, which is never
\* a block that a conditional branch has ended.
C10_SplitBlock ==
    /\ llast.inst.op \in {"BrIf", "BrUnless"} =>
          LET old == llast.region
              cur == llast.current_block
          IN  /\ current_block \notin DOMAIN llast.tblocks
              /\ DOMAIN tblocks = DOMAIN llast.tblocks \cup {current_block}
              /\ tblocks[current_block] = [args |-> <<>>, ops |-> <<>>]
              /\ \E p \in 1..Len(old) :
                    /\ old[p] = cur
                    /\ region = SubSeq(old, 1, p) \o <<current_block>>
                                  \o SubSeq(old, p + 1, Len(old))
              /\ Last(tblocks[cur].ops).name = "cf.cond_br"
    /\ llast.inst.kind # "none" =>
          \A b \in DOMAIN llast.tblocks :
              b # llast.current_block => tblocks[b] = llast.tblocks[b]
    /\ current_block # 0 =>
          \A i \in 1..Len(tblocks[current_block].ops) :
              tblocks[current_block].ops[i].name # "cf.cond_br"

\* The entry block was split at a conditional branch, and the instruction
\* that followed it in the same source block went to the new block, which
\* sits between the two blocks made for the source blocks.
C10_Witness ==
    /\ current_source_block = 1
    /\ Len(lfun[1]) = 2
    /\ lfun[1][1].op = "BrUnless"
    /\ llast.inst.kind = "UnaryOp"
    /\ region = <<blocks[1], current_block, blocks[2]>>
    /\ llast.current_block = current_block
    /\ Last(tblocks[blocks[1]].ops).name = "cf.cond_br"
    /\ Len(tblocks[blocks[1]].ops) = 1
    /\ Len(tblocks[current_block].ops) = 1

\* C11: a BrIf is lowered to a conditional branch whose true target is the
\* destination with the destination arguments and whose false target is the
\* split block with no arguments; a BrUnless to the same conditional branch
\* with the two targets swapped; the condition operand is the lowered
\* condition (or its cast to i1) in both.
C11_CondBranchTargets ==
    llast.inst.op \in {"BrIf", "BrUnless"} =>
        LET inst == llast.inst
            emitted == LastEmitted
            casts == SubSeq(emitted, 1, Len(emitted) - 1)
            branch == Last(emitted)
            dest == blocks[inst.destination]
            params == tblocks[dest].args
            to_dest == IF inst.op = "BrIf" THEN 1 ELSE 2
            to_split == IF inst.op = "BrIf" THEN 2 ELSE 1
        IN  /\ branch.name = "cf.cond_br"
            /\ Len(branch.successors) = 2
            /\ branch.successors[to_dest].block = dest
            /\ Len(branch.successors[to_dest].args) = Len(inst.args) - 1
            /\ \A k \in 1..(Len(inst.args) - 1) :
                  PassedOrCastOnce(llast.values[inst.args[k + 1]],
                                   params[k].ty,
                                   branch.successors[to_dest].args[k], casts)
            /\ branch.successors[to_split] =
                  [block |-> current_block, args |-> <<>>]
            /\ current_block \notin DOMAIN llast.tblocks
            /\ PassedOrCastOnce(llast.values[inst.args[1]], "i1",
                                branch.operands[1], casts)

\* A BrUnless on an i1 condition was lowered: the true target of the
\* conditional branch is the split block, the false target the destination
\* with its two arguments.
C11_Witness ==
    /\ llast.inst.op = "BrUnless"
    /\ llast.inst.args = <<1, 2, 1>>
    /\ Last(LastEmitted).name = "cf.cond_br"
    /\ Last(LastEmitted).operands = <<llast.values[1]>>
    /\ Last(LastEmitted).successors =
          <<[block |-> current_block, args |-> <<>>],
            [block |-> blocks[2],
             args |-> <<llast.values[2], llast.values[1]>>]>>

\* C15: build_inst translates every instruction an InstBuilder can build,
\* CondBr and Switch included, to operations of the dialect; none reaches
\* the unimplemented arm.
C15_EveryVariantLowered ==
    llast.inst.kind \in {"CondBr", "Switch"} =>
        /\ lstatus # "panic"
        /\ LastEmitted # <<>>

\* C12: each receive primop is lowered to its own operation of the dialect:
\* RecvStart to recv_start, RecvNext to recv_next, RecvPeek to recv_peek,
\* RecvPop to recv_pop and RecvWait to yield, so no two of them are lowered to
\* the same operation.
C12_RecvPrimopsOneToOne ==
    (llast.inst.kind = "PrimOp" /\ lstatus # "panic") =>
        /\ Len(LastEmitted) = 1
        /\ LastEmitted[1].name =
              (CASE llast.inst.op = "RecvStart" -> "cir.recv_start"
                 [] llast.inst.op = "RecvNext" -> "cir.recv_next"
                 [] llast.inst.op = "RecvPeek" -> "cir.recv_peek"
                 [] llast.inst.op = "RecvPop" -> "cir.recv_pop"
                 [] llast.inst.op = "RecvWait" -> "cir.yield")

\* C14: lowering an instruction whose constant-pool operand is a big
\* integer, a binary, a tuple, a list or a map ends with an error returned
\* by build_inst, not with an abort, and leaves the block map and the value
\* map as they were.
C14_UnsupportedConstantError ==
    (llast.inst.kind = "UnaryOpConst"
        /\ llast.inst.imm \in {"bigint", "binary", "tuple", "list", "map"}) =>
        /\ lstatus = "error"
        /\ values = llast.values
        /\ DOMAIN blocks = {1, 2}

\* C16: the SetElement built by set_element(T, 2, V) is lowered to the
\* operation set_element(T', isize(2), V'), T' and V' the lowered T and V;
\* its result is mapped as a new value, not T', and the mapping of T is
\* left as it was.
C16_SetElementLowered ==
    llast.inst.kind = "SetElement" =>
        /\ lstatus # "panic"
        /\ LastEmitted # <<>>
        /\ LET op == Last(LastEmitted)
               inst == llast.inst
           IN  /\ op.name = "cir.set_element"
               /\ Len(op.operands) = 3
               /\ op.operands[1] = llast.values[inst.args[1]]
               /\ op.operands[2].ty = "!cir.isize"
               /\ op.operands[3] = llast.values[inst.args[2]]
               /\ values[inst.results[1]] = op.results[1]
               /\ op.results[1] # llast.values[inst.args[1]]
               /\ values[inst.args[1]] = llast.values[inst.args[1]]

(***************************************************************************)
(*                      Properties: receive loop                           *)
(***************************************************************************)

C19_DeclareIdempotent ==
    /\ \A i, j \in 1..Len(mfuncs) :
          mfuncs[i].name = mfuncs[j].name => i = j
    /\ \A l1, l2 \in DOMAIN dret :
          (dret[l1].name # "none" /\ dret[l1].name = dret[l2].name) =>
              dret[l1].handle = dret[l2].handle

(***************************************************************************)
(*                      Properties: process flags                          *)
(***************************************************************************)

\* The argument of the latest trap_exit call among the first n calls, FALSE
\* when there is none.
RECURSIVE LatestTrapExit(_)
LatestTrapExit(n) ==
    IF n = 0 THEN FALSE
    ELSE IF phist[n].op = "trap_exit" THEN phist[n].arg
    ELSE LatestTrapExit(n - 1)

C29_ShutdownExactlyOnce ==
    mi_pc = "returned" =>
        /\ Len(mi_shutdowns) = 1
        /\ (mi_result = "err") <=> (mi_shutdowns[1] = "err")

(***************************************************************************)
(*                      Properties: FunctionContext                        *)
(***************************************************************************)

\* C30: the names one FunctionContext generates are pairwise distinct, the
\* counter has advanced by one per name generated and never goes back, and
\* next_n_vars(n) returns n names numbered one after the other from the
\* value the counter had at the call.
C30_FreshNames ==
    /\ \A i, j \in 1..Len(fc_names) : fc_names[i] = fc_names[j] => i = j
    /\ var_counter = fc_start + Len(fc_names)
    /\ var_counter = fc_last.counter + Len(fc_last.names)
    /\ fc_last.op = "next_n_vars" =>
          /\ Len(fc_last.names) = fc_last.n
          /\ \A i \in 1..fc_last.n :
                fc_last.names[i] = <<"$">> \o Decimal(fc_last.counter + i - 1)

\* next_n_vars(3) called after other names were generated, with the counter
\* going from one digit to two.
C30_Witness ==
    /\ fc_last.op = "next_n_vars"
    /\ fc_last.n = 3
    /\ fc_last.counter = 9
    /\ Len(fc_names) = 4
    /\ fc_last.names = << <<"$", 9>>, <<"$", 1, 0>>, <<"$", 1, 1>> >>

(***************************************************************************)
(*                      Properties: maps:merge/2                           *)
(***************************************************************************)

\* C21: with map1 a map and map2 not a map, maps:merge(map1, map2) returns
\* the error badmap carrying map2, never a merged map.
C21_BadmapCarriesMap2 ==
    (mg_args # <<>> /\ mg_args[1].tag = "map" /\ mg_args[2].tag # "map") =>
        /\ mg_result.tag = "error"
        /\ mg_result.reason = "badmap"
        /\ mg_result.term = mg_args[2]

\* A map with two entries merged with an atom.
C21_Witness ==
    /\ mg_args # <<>>
    /\ mg_args[1].tag = "map"
    /\ DOMAIN mg_args[1].entries = {"a", "b"}
    /\ mg_args[2].tag = "atom"
    /\ mg_result.tag = "error"

=============================================================================
